---- MODULE Spec2Model ----
(***************************************************************************)
(* WildlifeTracker backend: the observation create / map-read handlers,    *)
(* the revocation lookup, the notification dispatcher and the one-time     *)
(* passcode endpoints, as state machines.                                  *)
(*                                                                         *)
(* JavaScript strings are sequences of one-character strings, so that      *)
(* toLowerCase, includes, split and replace are computed, not assumed.     *)
(* JavaScript objects are functions whose DOMAIN is the set of properties  *)
(* that are not undefined.                                                 *)
(***************************************************************************)
EXTENDS Integers, Sequences, FiniteSets, TLC

(***************************************************************************)
(* Bounds of the model.                                                    *)
(***************************************************************************)
MaxRequests == 2
MaxIssues == 2
MaxInflight == 2
MaxClock == 2

(***************************************************************************)
(* Strings.                                                                *)
(***************************************************************************)
UpperChars == <<"A","B","C","D","E","F","G","H","I","J","K","L","M",
                "N","O","P","Q","R","S","T","U","V","W","X","Y","Z">>
LowerChars == <<"a","b","c","d","e","f","g","h","i","j","k","l","m",
                "n","o","p","q","r","s","t","u","v","w","x","y","z">>
DigitChars == <<"0","1","2","3","4","5","6","7","8","9">>

Range(s) == {s[i] : i \in 1..Len(s)}

\* String.prototype.toLowerCase, one character
toLowerChar(c) ==
  IF c \in Range(UpperChars)
    THEN LowerChars[CHOOSE i \in 1..Len(UpperChars) : UpperChars[i] = c]
    ELSE c

\* String.prototype.toLowerCase
toLowerCase(s) == [i \in 1..Len(s) |-> toLowerChar(s[i])]

\* String.prototype.includes
includes(s, k) ==
  \E i \in 0..(Len(s) - Len(k)) : SubSeq(s, i + 1, i + Len(k)) = k

\* the character class [a-zA-Z0-9]
IsAlnum(c) == c \in Range(UpperChars) \cup Range(LowerChars) \cup Range(DigitChars)

\* s.replace(/[^a-zA-Z0-9]/g, '_')
replaceNonAlnum(s) == [i \in 1..Len(s) |-> IF IsAlnum(s[i]) THEN s[i] ELSE "_"]

\* s.replace(/[^a-zA-Z0-9.-]/g, '_')
sanitizeFileName(s) ==
  [i \in 1..Len(s) |-> IF IsAlnum(s[i]) \/ s[i] \in {".", "-"} THEN s[i] ELSE "_"]

\* s.split('@')[0]
splitAt0(s) ==
  IF "@" \in Range(s)
    THEN SubSeq(s, 1, (CHOOSE i \in 1..Len(s) :
                         s[i] = "@" /\ \A j \in 1..(i - 1) : s[j] # "@") - 1)
    ELSE s

(***************************************************************************)
(* Objects.                                                                *)
(***************************************************************************)
EmptyObj == [x \in {} |-> 0]

\* obj.f !== undefined
Has(obj, f) == f \in DOMAIN obj

\* truthiness of a string-valued property: defined and not ''
Truthy(obj, f) == f \in DOMAIN obj /\ obj[f] # <<>>

\* the properties of obj named in fs
Pick(obj, fs) == [f \in (DOMAIN obj) \cap fs |-> obj[f]]

(***************************************************************************)
(* String constants of the program and of the requests.                    *)
(***************************************************************************)
sSighting == <<"S","i","g","h","t","i","n","g">>
sIncident == <<"I","n","c","i","d","e","n","t">>
sMaintenance == <<"M","a","i","n","t","e","n","a","n","c","e">>

\* const poachingKeywords = ['poach', 'illegal hunting', 'snare', 'trap']
\* the keyword of the handler's own check only
poachingKeywordsPoachOnly == {<<"p","o","a","c","h">>}

poachingKeywords ==
  { <<"p","o","a","c","h">>,
    <<"i","l","l","e","g","a","l"," ","h","u","n","t","i","n","g">>,
    <<"s","n","a","r","e">>,
    <<"t","r","a","p">> }

\* the one keyword of the create handler's own check: includes('poach')
uploadKeyword == <<"p","o","a","c","h">>

ptCarcass == <<"C","a","r","c","a","s","s">>
ptSnare == <<"S","n","a","r","e">>
ptPoacher == <<"P","o","a","c","h","e","r">>
ptFishing == <<"F","i","s","h","i","n","g"," ","n","e","t","/","e","q","u","i","p","m","e","n","t">>

\* const validPoachingTypes = ['Carcass', 'Snare', 'Poacher', 'Fishing net/equipment']
validPoachingTypes == {ptCarcass, ptSnare, ptPoacher, ptFishing}

emailPrefix == <<"e","m","a","i","l","_">>
blobPrefix == <<"o","b","s","e","r","v","a","t","i","o","n","s","/">>

\* decimal digits of a natural number (Date.now() inside a template string)
RECURSIVE numToStr(_)
numToStr(n) ==
  IF n < 10 THEN <<DigitChars[n + 1]>>
  ELSE numToStr(n \div 10) \o <<DigitChars[(n % 10) + 1]>>

(***************************************************************************)
(* notificationServices.js: classification of a record.                    *)
(***************************************************************************)
\* nothing classified as a poaching incident
isPoachingIncidentNever(incidentData) == FALSE

\* isPoachingIncident, lines 152-164
isPoachingIncident(incidentData) ==
  IF ~Has(incidentData, "category") \/ incidentData["category"] # sIncident
    THEN FALSE
    ELSE LET incidentTypeLower ==
               toLowerCase(IF Truthy(incidentData, "incident_type")
                             THEN incidentData["incident_type"] ELSE <<>>)
         IN  \E keyword \in poachingKeywords : includes(incidentTypeLower, keyword)

(***************************************************************************)
(* The user store and checkUserRevoked.                                    *)
(* A user document is [id, uid, email, name, status]; a property the       *)
(* document does not hold is the empty string (both are falsy and equal    *)
(* no identifier).  The sequence order is the order of the snapshot.       *)
(***************************************************************************)
UserIds(us) == {us[i].id : i \in 1..Len(us)}

\* db.collection('users').doc(id).get(): the index of the document, 0 if none
docIndex(us, id) ==
  IF id \in UserIds(us) THEN CHOOSE i \in 1..Len(us) : us[i].id = id ELSE 0

\* the match of the linear scan, lines 798-802
scanMatches(data, userIdentifier) ==
  \/ data.email = userIdentifier
  \/ data.uid = userIdentifier
  \/ data.name = userIdentifier
  \/ (data.name # <<>> /\ includes(userIdentifier, data.name))
  \/ (data.email # <<>> /\ includes(userIdentifier, splitAt0(data.email)))

\* for (const doc of usersSnapshot.docs) { if (...) { userDoc = doc; break } }
scanIndex(us, userIdentifier) ==
  IF \E i \in 1..Len(us) : scanMatches(us[i], userIdentifier)
    THEN CHOOSE i \in 1..Len(us) :
           /\ scanMatches(us[i], userIdentifier)
           /\ \A j \in 1..(i - 1) : ~scanMatches(us[j], userIdentifier)
    ELSE 0

\* 'email_' + userIdentifier.toLowerCase().replace(/[^a-zA-Z0-9]/g, '_')
emailDocId(userIdentifier) == emailPrefix \o replaceNonAlnum(toLowerCase(userIdentifier))

\* a failed lookup treated as a revocation
revokedOnErrorClosed == TRUE

\* what the catch of checkUserRevoked returns
revokedOnError == FALSE

\* checkUserRevoked(db, userIdentifier); failAt = k makes the k-th read of
\* the user store throw (0: no read throws).  The result holds the answer
\* and the number of reads that were started.
checkUserRevoked(us, userIdentifier, failAt) ==
  LET byId    == docIndex(us, userIdentifier)
      tryMail == byId = 0 /\ "@" \in Range(userIdentifier)
      byMail  == IF tryMail THEN docIndex(us, emailDocId(userIdentifier)) ELSE byId
      nMail   == IF tryMail THEN 2 ELSE 1
      tryScan == byMail = 0
      found   == IF tryScan THEN scanIndex(us, userIdentifier) ELSE byMail
      nReads  == IF tryScan THEN nMail + 1 ELSE nMail
  IN  IF failAt \in 1..nReads
        THEN [revoked |-> revokedOnError, reads |-> failAt, failed |-> TRUE]
        ELSE IF found = 0
          THEN [revoked |-> FALSE, reads |-> nReads, failed |-> FALSE]
          ELSE [revoked |-> (us[found].status = "revoked"), reads |-> nReads,
                failed |-> FALSE]

(***************************************************************************)
(* notificationServices.js: the dispatcher.                                *)
(* A transport t describes what the environment and EmailJS do during one  *)
(* dispatch: configured (the four EMAILJS_* variables are set), initThrows *)
(* (emailjs.init throws), recipients (NOTIFICATION_EMAILS, split), sendOk  *)
(* (the recipients for which emailjs.send resolves).                       *)
(***************************************************************************)
NoEmail == [success |-> FALSE, reason |-> "none", results |-> <<>>, sends |-> <<>>]
NoTransport == [configured |-> FALSE, initThrows |-> FALSE, recipients |-> <<>>, sendOk |-> {}]

\* success only when every send succeeded
overallSuccessAll(results) == \A i \in 1..Len(results) : results[i].success

\* successCount > 0
overallSuccess(results) == Cardinality({i \in 1..Len(results) : results[i].success}) > 0

\* sendEmailNotification: [raised, value]; value.sends lists the recipients
\* emailjs.send was called with, in the order of the calls
sendEmailNotification(incidentData, t) ==
  IF ~t.configured
    THEN [raised |-> FALSE,
          value |-> [success |-> FALSE, reason |-> "EmailJS not configured", results |-> <<>>,
                     sends |-> <<>>]]
  ELSE IF t.initThrows
    THEN [raised |-> TRUE, value |-> NoEmail]
  ELSE IF Len(t.recipients) = 0
    THEN [raised |-> FALSE,
          value |-> [success |-> FALSE, reason |-> "No recipients configured", results |-> <<>>,
                     sends |-> <<>>]]
  ELSE LET results == [i \in 1..Len(t.recipients) |->
                         [success |-> (t.recipients[i] \in t.sendOk),
                          recipient |-> t.recipients[i]]]
       IN  [raised |-> FALSE,
            value |-> [success |-> overallSuccess(results), reason |-> "sent",
                       results |-> results, sends |-> t.recipients]]

\* sendPoachingIncidentNotifications: [called, raised, email], with the
\* transport it ran against
sendPoachingIncidentNotifications(incidentData, t) ==
  LET r == sendEmailNotification(incidentData, t)
  IN  IF r.raised
        THEN [called |-> TRUE, raised |-> FALSE, transport |-> t,
              email |-> [success |-> FALSE, reason |-> "error", results |-> <<>>,
                         sends |-> <<>>]]
        ELSE [called |-> TRUE, raised |-> FALSE, transport |-> t, email |-> r.value]

NoDispatch == [called |-> FALSE, raised |-> FALSE, transport |-> NoTransport, email |-> NoEmail]

(***************************************************************************)
(* The create handler, router.post('/'): pure parts.                       *)
(* A request is [body, file]: body is req.body, file is the original name  *)
(* of the multipart image, '' when there is none.                          *)
(***************************************************************************)
\* the availability gate left out
storeUnavailableNever(available) == FALSE

\* if (!db): the availability gate of both handlers
storeUnavailable(available) == ~available

\* the handler's own poaching check (line 1071)
requiresPoachingType(body) ==
  /\ Has(body, "category") /\ body["category"] = sIncident
  /\ Truthy(body, "incident_type")
  /\ includes(toLowerCase(body["incident_type"]), uploadKeyword)

\* shape validation without the check of animal
shapeErrorNoAnimal(body) ==
  IF ~Truthy(body, "category") THEN "Category is required"
  ELSE IF body["category"] = sIncident /\ ~Truthy(body, "incident_type")
    THEN "Incident type is required for incidents"
  ELSE IF body["category"] = sMaintenance /\ ~Truthy(body, "maintenance_type")
    THEN "Maintenance type is required for maintenance"
  ELSE IF requiresPoachingType(body)
          /\ (~Truthy(body, "poaching_type") \/ body["poaching_type"] \notin validPoachingTypes)
    THEN "Poaching type must be one of"
  ELSE ""

\* shape validation, lines 1039-1078: the error of the first failing check, "" if none
shapeError(body) ==
  IF ~Truthy(body, "category") THEN "Category is required"
  ELSE IF body["category"] = sSighting /\ ~Truthy(body, "animal")
    THEN "Animal is required for sightings"
  ELSE IF body["category"] = sIncident /\ ~Truthy(body, "incident_type")
    THEN "Incident type is required for incidents"
  ELSE IF body["category"] = sMaintenance /\ ~Truthy(body, "maintenance_type")
    THEN "Maintenance type is required for maintenance"
  ELSE IF requiresPoachingType(body)
          /\ (~Truthy(body, "poaching_type") \/ body["poaching_type"] \notin validPoachingTypes)
    THEN "Poaching type must be one of"
  ELSE ""

\* fields copied only when truthy
TruthyPick(body, fs) == [f \in {g \in fs : Truthy(body, g)} |-> body[f]]

\* if (latitude !== undefined && longitude !== undefined)
gpsFields(body) ==
  IF Has(body, "latitude") /\ Has(body, "longitude")
    THEN Pick(body, {"latitude", "longitude"})
    ELSE EmptyObj

\* every field of the body copied
buildObservationAll(body, now) ==
  body @@ ("timestamp" :> now) @@ ("synced" :> TRUE)

\* observationData, lines 1080-1110 (timestamp || now, user: user)
buildObservation(body, now) ==
  LET base == ("category" :> body["category"])
              @@ ("timestamp" :> IF Has(body, "timestamp") /\ body["timestamp"] # 0
                                   THEN body["timestamp"] ELSE now)
              @@ ("synced" :> TRUE)
              @@ Pick(body, {"user"})
      bycat ==
        IF body["category"] = sSighting
          THEN Pick(body, {"animal"})
               @@ TruthyPick(body, {"pride_name", "leopard_name", "animal_activity", "animal_age"})
        ELSE IF body["category"] = sIncident
          THEN Pick(body, {"incident_type"})
               @@ (IF Truthy(body, "poaching_type")
                     THEN Pick(body, {"poaching_type"}) @@ TruthyPick(body, {"poached_animal"})
                     ELSE EmptyObj)
        ELSE IF body["category"] = sMaintenance
          THEN Pick(body, {"maintenance_type"})
        ELSE EmptyObj
  IN  base @@ bycat @@ gpsFields(body)

\* imageOriginalName of lines 1118-1137, '' when no image is to be uploaded
imageOriginalName(r) ==
  IF r.file # <<>> THEN r.file
  ELSE IF Truthy(r.body, "poaching_image") /\ Truthy(r.body, "poaching_image_name")
    THEN r.body["poaching_image_name"]
  ELSE <<>>

\* `observations/${Date.now()}_${imageOriginalName.replace(/[^a-zA-Z0-9.-]/g, '_')}`
blobFileName(now, name) == blobPrefix \o numToStr(now) \o <<"_">> \o sanitizeFileName(name)

\* the image fields set before the upload is known to have succeeded
imageFieldsAlways(ok, fileName, name) ==
  ("image_path" :> fileName) @@ ("image_filename" :> name)

\* what the handler adds to observationData after file.save, by its outcome
imageFields(ok, fileName, name) ==
  IF ok THEN ("image_path" :> fileName) @@ ("image_filename" :> name) ELSE EmptyObj

\* a failed notification turned into a failed request
statusAfterDispatchStrict(d) == IF d.raised \/ ~d.email.success THEN 500 ELSE 201

\* the status that follows the dispatch (the handler's inner try/catch)
statusAfterDispatch(d) == 201

NoResponse == [status |-> 0, error |-> "", data |-> EmptyObj, details |-> ""]
Reply(st, err, d) == [status |-> st, error |-> err, data |-> d, details |-> ""]

\* details: process.env.NODE_ENV === 'development' ? error.message : undefined
errorDetails(nodeEnv) == IF nodeEnv = "development" THEN "error.message" ELSE ""
ReplyError(st, err, nodeEnv) ==
  [status |-> st, error |-> err, data |-> EmptyObj, details |-> errorDetails(nodeEnv)]
NoRequest == [body |-> EmptyObj, file |-> <<>>]

(***************************************************************************)
(* The map read, router.get('/'): pure parts.                              *)
(***************************************************************************)
\* if (data.latitude !== undefined && data.longitude !== undefined)
hasLocation(data) == Has(data, "latitude") /\ Has(data, "longitude")

\* the projection of one stored document, lines 891-933
mapProjection(doc) ==
  LET data == doc.data
  IN  ("id" :> doc.id)
      @@ Pick(data, {"category", "timestamp", "synced", "user"})
      @@ (IF Has(data, "category") /\ data["category"] = sSighting /\ Truthy(data, "animal")
            THEN Pick(data, {"animal"})
                 @@ TruthyPick(data, {"pride_name", "leopard_name", "animal_activity", "animal_age"})
            ELSE EmptyObj)
      @@ (IF Has(data, "category") /\ data["category"] = sIncident /\ Truthy(data, "incident_type")
            THEN Pick(data, {"incident_type"})
                 @@ (IF Truthy(data, "poaching_type")
                       THEN Pick(data, {"poaching_type"}) @@ TruthyPick(data, {"poached_animal"})
                       ELSE EmptyObj)
            ELSE EmptyObj)
      @@ (IF Has(data, "category") /\ data["category"] = sMaintenance
             /\ Truthy(data, "maintenance_type")
            THEN Pick(data, {"maintenance_type"})
            ELSE EmptyObj)
      @@ (IF Truthy(data, "image_path")
            THEN ("has_image" :> TRUE) @@ Pick(data, {"image_filename"})
            ELSE EmptyObj)
      @@ (IF hasLocation(data) THEN Pick(data, {"latitude", "longitude"}) ELSE EmptyObj)

\* .orderBy('timestamp', 'desc'): later timestamps first, ties by later id first
RECURSIVE orderByTimestampDesc(_)
orderByTimestampDesc(docs) ==
  IF docs = {} THEN <<>>
  ELSE LET first == CHOOSE d \in docs :
                      \A e \in docs :
                        \/ d.data["timestamp"] > e.data["timestamp"]
                        \/ (d.data["timestamp"] = e.data["timestamp"] /\ d.id >= e.id)
       IN  <<first>> \o orderByTimestampDesc(docs \ {first})

\* every projected record pushed
includeInMapAll(observation) == TRUE

\* if (observation.latitude !== undefined && observation.longitude !== undefined)
includeInMap(observation) == Has(observation, "latitude") /\ Has(observation, "longitude")

\* observations.push(observation) only for records with location data
RECURSIVE mapData(_)
mapData(docs) ==
  IF docs = <<>> THEN <<>>
  ELSE LET observation == mapProjection(Head(docs))
       IN  (IF includeInMap(observation) THEN <<observation>> ELSE <<>>)
           \o mapData(Tail(docs))

(***************************************************************************)
(* State.                                                                  *)
(***************************************************************************)
VARIABLES
  dbAvailable,      \* db !== null (server.js sets db = null when Firebase fails)
  users,            \* the users collection, in snapshot order
  observations,     \* the observations collection: <<[id, data]>>, in insert order
  blobs,            \* the names of the files saved in the storage bucket
  now,              \* the server clock; it advances with every request received
  pc,               \* where the create handler is: idle, upload, insert, notify
  req,              \* the request being handled, or the last one handled
  observationData,  \* the handler's observationData
  response,         \* the last response sent
  dispatch,         \* the dispatch made for req: what the dispatcher returned
  userReads,        \* reads of the user store started for req
  readFailed,       \* a read of the user store threw while req was checked
  upload,           \* outcome of the image upload for req: none, ok, failed
  snap              \* sizes of the stores when req was received

createVars == <<dbAvailable, users, observations, blobs, now, pc, req, observationData,
                response, dispatch, userReads, readFailed, upload, snap>>

VARIABLES
  pinStore,         \* auth.js pinStore: email key -> [pin, name, timestamp, attempts]
  clock,            \* Date.now() of the auth server, in units of fifteen minutes
  requesting,       \* request-pin handlers awaiting sendPinEmail (order is immaterial)
  verifying,        \* verify-pin handlers awaiting createCustomToken (order is immaterial)
  tokens,           \* the PINs (by issue) that a custom token was issued for
  authResponse,     \* the last response of the auth router
  issued,           \* number of PINs stored so far
  consumed          \* keys whose PIN was verified with no PIN stored since

authVars == <<pinStore, clock, requesting, verifying, tokens, authResponse, issued, consumed>>

VARIABLES
  env,              \* process.env: the configuration the server was started with
  cronPc,           \* where the scheduled fire check is: idle, fetch, notify
  cronHeader,       \* the Authorization header of the latest scheduled fire check
  cronFetches,      \* the fetches of the fire feed made for it
  features,         \* the features parsed from the two feeds
  fireAlert,        \* what sendFireNotifications did with them
  cronResponse,     \* the response of the scheduled fire check
  clientFeature     \* the feature the client built from its latest GPS fix

fireVars == <<cronPc, cronHeader, cronFetches, features, fireAlert, cronResponse, clientFeature>>

VARIABLES
  adminReq,         \* the latest request to the admin router
  adminResponse,    \* its response
  adminTouched      \* whether its handling read or wrote the user store

adminVars == <<adminReq, adminResponse, adminTouched>>

vars == <<createVars, authVars, env, fireVars, adminVars>>

(***************************************************************************)
(* The create handler, router.post('/').                                   *)
(***************************************************************************)
\* from the request to the first await after validation: availability gate,
\* revocation gate, shape validation, normalisation
CreateReceive(r, failAt) ==
  /\ pc = "idle"
  /\ now < MaxRequests
  /\ now' = now + 1
  /\ req' = r
  /\ dispatch' = NoDispatch
  /\ snap' = [observations |-> Len(observations), blobs |-> Len(blobs)]
  /\ upload' = "none"
  /\ UNCHANGED <<dbAvailable, users, observations, blobs>>
  /\ IF storeUnavailable(dbAvailable)
       THEN /\ response' = Reply(503, "Database not available", EmptyObj)
            /\ userReads' = 0
            /\ readFailed' = FALSE
            /\ UNCHANGED <<pc, observationData>>
       ELSE LET check == IF Truthy(r.body, "user")
                           THEN checkUserRevoked(users, r.body["user"], failAt)
                           ELSE [revoked |-> FALSE, reads |-> 0, failed |-> FALSE]
            IN  /\ userReads' = check.reads
                /\ readFailed' = check.failed
                /\ IF check.revoked
                     THEN /\ response' = Reply(403, "Access denied", EmptyObj)
                          /\ UNCHANGED <<pc, observationData>>
                   ELSE IF shapeError(r.body) # ""
                     THEN /\ response' = Reply(400, shapeError(r.body), EmptyObj)
                          /\ UNCHANGED <<pc, observationData>>
                   ELSE /\ observationData' = buildObservation(r.body, now')
                        /\ pc' = IF imageOriginalName(r) # <<>> THEN "upload" ELSE "insert"
                        /\ response' = NoResponse
  /\ UNCHANGED <<authVars, env, fireVars, adminVars>>

\* await file.save(...): it resolves (ok) or throws
CreateUpload(ok) ==
  /\ pc = "upload"
  /\ LET name == imageOriginalName(req)
         fileName == blobFileName(now, name)
     IN  /\ blobs' = IF ok THEN Append(blobs, fileName) ELSE blobs
         /\ observationData' = observationData @@ imageFields(ok, fileName, name)
  /\ upload' = IF ok THEN "ok" ELSE "failed"
  /\ pc' = "insert"
  /\ UNCHANGED <<dbAvailable, users, observations, now, req, response, dispatch,
                 userReads, readFailed, snap>>
  /\ UNCHANGED <<authVars, env, fireVars, adminVars>>

\* an id given out again
autoIdFirst(store) == 1

\* the id that add() generates for the new document: one not in the store
autoId(store) == Len(store) + 1

\* await db.collection('observations').add(observationData): it resolves with
\* the new document's id (ok) or throws, which the outer catch answers with 500
CreateInsert(ok) ==
  /\ pc = "insert"
  /\ IF ok
       THEN LET docRefId == autoId(observations)
                savedObservation == ("id" :> docRefId) @@ observationData
            IN  /\ observations' = Append(observations, [id |-> docRefId, data |-> observationData])
                /\ IF isPoachingIncident(savedObservation)
                     THEN /\ pc' = "notify"
                          /\ UNCHANGED response
                     ELSE /\ pc' = "idle"
                          /\ response' = Reply(201, "", savedObservation)
       ELSE /\ pc' = "idle"
            /\ response' = ReplyError(500, "Failed to create observation", env.NODE_ENV)
            /\ UNCHANGED observations
  /\ UNCHANGED <<dbAvailable, users, blobs, now, req, observationData, dispatch,
                 userReads, readFailed, upload, snap>>
  /\ UNCHANGED <<authVars, env, fireVars, adminVars>>

\* await sendPoachingIncidentNotifications(savedObservation), then the response
CreateNotify(t) ==
  /\ pc = "notify"
  /\ LET docRefId == observations[Len(observations)].id
         savedObservation == ("id" :> docRefId) @@ observationData
         d == sendPoachingIncidentNotifications(savedObservation, t)
         st == statusAfterDispatch(d)
     IN  /\ dispatch' = d
         /\ response' = IF st = 201
                          THEN Reply(201, "", savedObservation)
                          ELSE ReplyError(st, "Failed to create observation", env.NODE_ENV)
  /\ pc' = "idle"
  /\ UNCHANGED <<dbAvailable, users, observations, blobs, now, req, observationData,
                 userReads, readFailed, upload, snap>>
  /\ UNCHANGED <<authVars, env, fireVars, adminVars>>

(***************************************************************************)
(* The map read, router.get('/').                                          *)
(***************************************************************************)
MapRequest == [body |-> ("map" :> TRUE), file |-> <<>>]

\* router.get('/') for the request mapReq
GetObservationsFor(mapReq, ok) ==
  /\ pc = "idle"
  /\ req' = mapReq
  /\ dispatch' = NoDispatch
  /\ userReads' = 0
  /\ readFailed' = FALSE
  /\ upload' = "none"
  /\ snap' = [observations |-> Len(observations), blobs |-> Len(blobs)]
  /\ response' = IF storeUnavailable(dbAvailable)
                   THEN Reply(503, "Database not available", EmptyObj)
                 ELSE IF ~ok
                   THEN ReplyError(500, "Failed to fetch observations", env.NODE_ENV)
                   ELSE LET data == mapData(orderByTimestampDesc(Range(observations)))
                        IN  Reply(200, "", ("data" :> data) @@ ("count" :> Len(data)))
  /\ UNCHANGED <<dbAvailable, users, observations, blobs, now, pc, observationData>>
  /\ UNCHANGED <<authVars, env, fireVars, adminVars>>

GetObservations(ok) == GetObservationsFor(MapRequest, ok)

\* router.get('/:id/image') for the request r, whose body.image is the id: the
\* document read, the existence check and the signing resolve (ok) or throw;
\* exists is what file.exists() finds.  There is no availability gate: without
\* a store db.collection throws
GetImage(r, exists, ok) ==
  /\ pc = "idle"
  /\ req' = r
  /\ dispatch' = NoDispatch
  /\ userReads' = 0
  /\ readFailed' = FALSE
  /\ upload' = "none"
  /\ snap' = [observations |-> Len(observations), blobs |-> Len(blobs)]
  /\ LET id == r.body["image"]
         found == {k \in 1..Len(observations) : observations[k].id = id}
     IN  response' =
           IF ~dbAvailable \/ ~ok
             THEN ReplyError(500, "Failed to serve image", env.NODE_ENV)
           ELSE IF found = {}
             THEN Reply(404, "Observation not found", EmptyObj)
           ELSE IF ~Truthy(observations[CHOOSE k \in found : TRUE].data, "image_path")
             THEN Reply(404, "No image found for this observation", EmptyObj)
           ELSE IF ~exists
             THEN Reply(404, "Image file not found in storage", EmptyObj)
           ELSE Reply(302, "", ("signedUrl" :>
                                  observations[CHOOSE k \in found : TRUE].data["image_path"]))
  /\ UNCHANGED <<dbAvailable, users, observations, blobs, now, pc, observationData>>
  /\ UNCHANGED <<authVars, env, fireVars, adminVars>>

(***************************************************************************)
(* router.use(validateApiKey): the middleware in front of the three routes. *)
(* A request carries apiKey = [header, query], '' for an absent one.       *)
(***************************************************************************)
\* every key accepted
validateApiKeyAlways(k, configured) == TRUE

\* !(!apiKey || apiKey !== process.env.API_KEY), with
\* apiKey = req.headers['x-api-key'] || req.query.apiKey
validateApiKey(k, configured) ==
  LET presented == IF k.header # <<>> THEN k.header ELSE k.query
  IN  ~(presented = <<>> \/ presented # configured)

\* res.status(401): the handler is not reached
Unauthorized(r) ==
  /\ pc = "idle"
  /\ req' = r
  /\ response' = Reply(401, "Unauthorized", EmptyObj)
  /\ dispatch' = NoDispatch
  /\ userReads' = 0
  /\ readFailed' = FALSE
  /\ upload' = "none"
  /\ snap' = [observations |-> Len(observations), blobs |-> Len(blobs)]
  /\ UNCHANGED <<dbAvailable, users, observations, blobs, now, pc, observationData>>
  /\ UNCHANGED <<authVars, env, fireVars, adminVars>>

ApiCreate(r, failAt) ==
  IF validateApiKey(r.apiKey, env.API_KEY) THEN CreateReceive(r, failAt) ELSE Unauthorized(r)

ApiMap(r, ok) ==
  IF validateApiKey(r.apiKey, env.API_KEY) THEN GetObservationsFor(r, ok) ELSE Unauthorized(r)

ApiImage(r, exists, ok) ==
  IF validateApiKey(r.apiKey, env.API_KEY) THEN GetImage(r, exists, ok) ELSE Unauthorized(r)

(***************************************************************************)
(* auth.js: the one-time passcode endpoints.                               *)
(* Time is counted in units of fifteen minutes, the lifetime of a PIN.     *)
(***************************************************************************)
\* 15 * 60 * 1000 ms
PinTtl == 1
\* if (storedData.attempts >= 5)
MaxAttempts == 5

\* a JSON body field that is a number and not a string: the marker, then its digits
numberTag == "number"
isString(v) == v = <<>> \/ Head(v) # numberTag

\* crypto.createHash('sha256').update(pin).digest('hex'): injective, never the pin
hashPin(pin) == <<"#">> \o pin

\* String.prototype.trim, for blanks
RECURSIVE trim(_)
trim(s) ==
  IF s = <<>> THEN s
  ELSE IF Head(s) = " " THEN trim(Tail(s))
  ELSE IF s[Len(s)] = " " THEN trim(SubSeq(s, 1, Len(s) - 1))
  ELSE s

\* /^[^\s@]+@[^\s@]+\.[^\s@]+$/.test(email)
emailRegexTest(email) ==
  /\ " " \notin Range(email)
  /\ Cardinality({i \in 1..Len(email) : email[i] = "@"}) = 1
  /\ \E i \in 2..Len(email) :
       /\ email[i - 1] # "@" /\ email[i] = "@"
       /\ \E j \in (i + 2)..(Len(email) - 1) : email[j] = "."
  /\ email[1] # "@"

\* a PIN that never expires
pinNeverExpired(entry, t) == FALSE

\* now - data.timestamp > 15 * 60 * 1000
pinExpired(entry, t) == t - entry.timestamp > PinTtl

\* a counter that never runs out
attemptsNeverExhausted(entry) == FALSE

\* storedData.attempts >= 5
attemptsExhausted(entry) == entry.attempts >= MaxAttempts

\* MaxAttempts mismatches are recorded against the pending entry of the email
\* when the request arrives
Locked(store, email) ==
  /\ isString(email)
  /\ toLowerCase(email) \in DOMAIN store
  /\ store[toLowerCase(email)].attempts >= MaxAttempts

\* the request meets the conditions for a token when it arrives: a pending entry
\* under the lower-cased email, issued at most the lifetime ago, with fewer than
\* MaxAttempts mismatches, holding the hash of the submitted PIN
Eligible(store, email, pin, t) ==
  /\ isString(email) /\ isString(pin)
  /\ LET k == toLowerCase(email)
     IN  /\ k \in DOMAIN store
         /\ t - store[k].timestamp <= PinTtl
         /\ store[k].attempts < MaxAttempts
         /\ store[k].pin = hashPin(pin)

\* `email_${emailKey.replace(/[^a-zA-Z0-9]/g, '_')}`
tokenUid(emailKey) == emailPrefix \o replaceNonAlnum(emailKey)

Without(f, k) == [x \in (DOMAIN f) \ {k} |-> f[x]]
RemoveAt(q, i) == SubSeq(q, 1, i - 1) \o SubSeq(q, i + 1, Len(q))

\* a handler starts waiting: the waiting handlers are kept ordered by PIN
AddWaiting(q, h) ==
  LET n == Cardinality({i \in 1..Len(q) : q[i].issue <= h.issue})
  IN  SubSeq(q, 1, n) \o <<h>> \o SubSeq(q, n + 1, Len(q))

\* the used PIN left in the store
keepUsedPin(store, emailKey) == store

\* what the verify-pin handler does to the store once the token is created
deleteUsedPin(store, emailKey) == Without(store, emailKey)

\* the response sent by the step just taken, none when the step sends none:
\* token says that it carries a customToken, made for uid and name;
\* afterUse says that the request arrived when its key was in consumed, again
\* that the PIN it was made for had a token already, eligible that the request
\* was Eligible when it arrived, typed that its email and PIN were strings,
\* locked that the entry was Locked when it arrived
NoAuthResponse ==
  [kind |-> "none", key |-> <<>>, status |-> 0, message |-> "", token |-> FALSE,
   uid |-> <<>>, name |-> <<>>, afterUse |-> FALSE, again |-> FALSE, eligible |-> FALSE,
   typed |-> TRUE, locked |-> FALSE]
AuthReply(kind, key, st, msg, tok, after) ==
  [kind |-> kind, key |-> key, status |-> st, message |-> msg, token |-> tok,
   uid |-> <<>>, name |-> <<>>, afterUse |-> after, again |-> FALSE, eligible |-> FALSE,
   typed |-> TRUE, locked |-> FALSE]

\* router.post('/request-pin') up to await sendPinEmail
RequestPin(email, name, pin) ==
  /\ IF email = <<>> \/ name = <<>>
       THEN /\ authResponse' = AuthReply("request", <<>>, 400, "Email and name are required",
                                         FALSE, FALSE)
            /\ UNCHANGED <<pinStore, requesting, issued, consumed>>
     ELSE IF ~emailRegexTest(email)
       THEN /\ authResponse' = AuthReply("request", <<>>, 400, "Invalid email format",
                                         FALSE, FALSE)
            /\ UNCHANGED <<pinStore, requesting, issued, consumed>>
     ELSE LET emailKey == toLowerCase(email)
              entry == [pin |-> hashPin(pin), name |-> trim(name), timestamp |-> clock,
                        attempts |-> 0, issue |-> issued + 1]
          IN  /\ issued < MaxIssues
              /\ Len(requesting) + Len(verifying) < MaxInflight
              /\ pinStore' = (emailKey :> entry) @@ pinStore
              /\ issued' = issued + 1
              /\ consumed' = consumed \ {emailKey}
              /\ requesting' = AddWaiting(requesting, [key |-> emailKey, issue |-> issued + 1])
              /\ authResponse' = NoAuthResponse
  /\ UNCHANGED <<clock, verifying, tokens>>
  /\ UNCHANGED <<createVars, env, fireVars, adminVars>>

\* sendPinEmail resolves (ok) or throws
RequestPinSent(i, ok) ==
  /\ i \in 1..Len(requesting)
  /\ requesting' = RemoveAt(requesting, i)
  /\ authResponse' = IF ok
       THEN AuthReply("request", requesting[i].key, 200, "PIN sent to your email", FALSE, FALSE)
       ELSE AuthReply("request", requesting[i].key, 500, "Failed to send PIN email", FALSE, FALSE)
  /\ UNCHANGED <<pinStore, clock, verifying, tokens, issued, consumed>>
  /\ UNCHANGED <<createVars, env, fireVars, adminVars>>

\* router.post('/verify-pin') up to await createCustomToken
VerifyPin(email, pin) ==
  LET emailKey == toLowerCase(email)
      after == isString(email) /\ emailKey \in consumed
      elig == Eligible(pinStore, email, pin, clock)
      reply(key, st, msg) ==
        [AuthReply("verify", key, st, msg, FALSE, after)
           EXCEPT !.eligible = elig, !.typed = isString(email) /\ isString(pin),
                  !.locked = Locked(pinStore, email)]
  IN
  /\ IF email = <<>> \/ pin = <<>>
       THEN /\ authResponse' = [reply(IF isString(email) THEN emailKey ELSE <<>>, 400,
                                        "Email and PIN are required")
                                  EXCEPT !.afterUse = FALSE]
            /\ UNCHANGED <<pinStore, verifying>>
     ELSE IF ~isString(email)
       \* email.toLowerCase is not a function: caught
       THEN /\ authResponse' = reply(<<>>, 500, "Internal server error")
            /\ UNCHANGED <<pinStore, verifying>>
     ELSE IF emailKey \notin DOMAIN pinStore
       THEN /\ authResponse' = reply(emailKey, 400, "PIN not found or expired")
            /\ UNCHANGED <<pinStore, verifying>>
     ELSE IF pinExpired(pinStore[emailKey], clock)
       THEN /\ pinStore' = Without(pinStore, emailKey)
            /\ authResponse' = reply(emailKey, 400, "PIN has expired")
            /\ UNCHANGED verifying
     ELSE IF attemptsExhausted(pinStore[emailKey])
       THEN /\ pinStore' = Without(pinStore, emailKey)
            /\ authResponse' = reply(emailKey, 400, "Too many failed attempts")
            /\ UNCHANGED verifying
     ELSE IF ~isString(pin)
       \* hash.update(pin) throws ERR_INVALID_ARG_TYPE: caught
       THEN /\ authResponse' = reply(emailKey, 500, "Internal server error")
            /\ UNCHANGED <<pinStore, verifying>>
     ELSE IF hashPin(pin) # pinStore[emailKey].pin
       THEN /\ pinStore' = [pinStore EXCEPT ![emailKey].attempts = @ + 1]
            /\ authResponse' = reply(emailKey, 400, "Invalid PIN")
            /\ UNCHANGED verifying
     ELSE /\ Len(requesting) + Len(verifying) < MaxInflight
          /\ verifying' = AddWaiting(verifying, [key |-> emailKey,
                                                 name |-> pinStore[emailKey].name,
                                                 issue |-> pinStore[emailKey].issue,
                                                 afterUse |-> after,
                                                 eligible |-> elig,
                                                 locked |-> Locked(pinStore, email)])
          /\ authResponse' = NoAuthResponse
          /\ UNCHANGED pinStore
  /\ UNCHANGED <<clock, requesting, tokens, issued, consumed>>
  /\ UNCHANGED <<createVars, env, fireVars, adminVars>>

\* createCustomToken resolves (ok) or throws; then pinStore.delete and the response
VerifyPinToken(i, ok) ==
  /\ i \in 1..Len(verifying)
  /\ verifying' = RemoveAt(verifying, i)
  /\ LET v == verifying[i]
     IN  IF ok
           THEN /\ tokens' = tokens \cup {v.issue}
                /\ pinStore' = deleteUsedPin(pinStore, v.key)
                /\ consumed' = consumed \cup {v.key}
                /\ authResponse' = [AuthReply("verify", v.key, 200, "", TRUE, v.afterUse)
                                      EXCEPT !.uid = tokenUid(v.key), !.name = v.name,
                                             !.again = v.issue \in tokens,
                                             !.eligible = v.eligible,
                                             !.locked = v.locked]
           ELSE /\ authResponse' = [AuthReply("verify", v.key, 500, "Internal server error",
                                              FALSE, v.afterUse)
                                      EXCEPT !.eligible = v.eligible, !.locked = v.locked]
                /\ UNCHANGED <<tokens, pinStore, consumed>>
  /\ UNCHANGED <<clock, requesting, issued>>
  /\ UNCHANGED <<createVars, env, fireVars, adminVars>>

\* the setInterval callback: evict the entries older than the TTL
Sweep ==
  /\ pinStore' = [k \in {x \in DOMAIN pinStore : ~pinExpired(pinStore[x], clock)} |->
                    pinStore[k]]
  /\ authResponse' = NoAuthResponse
  /\ UNCHANGED <<clock, requesting, verifying, tokens, issued, consumed>>
  /\ UNCHANGED <<createVars, env, fireVars, adminVars>>

\* fifteen minutes pass
Tick ==
  /\ clock < MaxClock
  /\ clock' = clock + 1
  /\ authResponse' = NoAuthResponse
  /\ UNCHANGED <<pinStore, requesting, verifying, tokens, issued, consumed>>
  /\ UNCHANGED <<createVars, env, fireVars, adminVars>>

(***************************************************************************)
(* The scheduled fire check, cron-fire-check.js, and the fire alert path   *)
(* of the notification service.  A feed is the text of a CSV response,     *)
(* given as its lines and each line as its cells, the results of           *)
(* split('\n') and split(',').  A number is [nan, val], in whole degrees.  *)
(***************************************************************************)
\* String.prototype.startsWith and slice(n)
startsWith(s, prefix) == Len(s) >= Len(prefix) /\ SubSeq(s, 1, Len(prefix)) = prefix
slice(s, n) == SubSeq(s, n + 1, Len(s))

bearerPrefix == <<"B","e","a","r","e","r"," ">>

\* every call let through
cronAuthorizedAlways(authHeader, cronSecret) == TRUE

\* !(!cronSecret || token !== cronSecret), authHeader '' when the header is missing
cronAuthorized(authHeader, cronSecret) ==
  LET token == IF startsWith(authHeader, bearerPrefix) THEN slice(authHeader, 7) ELSE <<>>
  IN  ~(cronSecret = <<>> \/ token # cronSecret)

NaN == [nan |-> TRUE, val |-> 0]
Num(n) == [nan |-> FALSE, val |-> n]
isNaN(x) == x.nan

digitValue(c) ==
  CASE c = "0" -> 0 [] c = "1" -> 1 [] c = "2" -> 2 [] c = "3" -> 3 [] c = "4" -> 4
    [] c = "5" -> 5 [] c = "6" -> 6 [] c = "7" -> 7 [] c = "8" -> 8 [] c = "9" -> 9

\* the value of the longest prefix of digits of s, after acc
RECURSIVE digitsPrefix(_, _)
digitsPrefix(s, acc) ==
  IF s = <<>> \/ Head(s) \notin Range(DigitChars) THEN acc
  ELSE digitsPrefix(Tail(s), 10 * acc + digitValue(Head(s)))

\* parseFloat, for texts without fraction or exponent: blanks, a sign, digits,
\* and whatever follows the digits is ignored
parseFloat(text) ==
  LET s == trim(text)
      neg == s # <<>> /\ Head(s) = "-"
      d == IF neg THEN Tail(s) ELSE s
  IN  IF d = <<>> \/ Head(d) \notin Range(DigitChars) THEN NaN
      ELSE Num((IF neg THEN -1 ELSE 1) * digitsPrefix(d, 0))

\* Number(text), the coercion made by >= and <=: the whole text must be a number
toNumber(text) ==
  LET s == trim(text)
      d == IF s # <<>> /\ Head(s) = "-" THEN Tail(s) ELSE s
  IN  IF s = <<>> THEN Num(0)
      ELSE IF d # <<>> /\ \A i \in 1..Len(d) : d[i] \in Range(DigitChars) THEN parseFloat(s)
      ELSE NaN

\* coordinates the other way round
pointCoordinatesLatFirst(lng, lat) == <<lat, lng>>

\* coordinates: [lng, lat]
pointCoordinates(lng, lat) == <<lng, lat>>

\* arr[i] of a JavaScript array
at(arr, i) == arr[i + 1]

\* properties[header.trim()] = values[index].trim(), a later column overriding
RECURSIVE rowProperties(_, _)
rowProperties(headers, values) ==
  IF headers = <<>> THEN EmptyObj
  ELSE LET n == Len(headers)
       IN  (headers[n] :> trim(values[n]))
             @@ rowProperties(SubSeq(headers, 1, n - 1), SubSeq(values, 1, n - 1))

\* parseCSV over the rows that follow the header line
RECURSIVE parseRows(_, _, _)
parseRows(headers, rows, sensor) ==
  IF rows = <<>> THEN <<>>
  ELSE LET values == Head(rows)
           rest == parseRows(headers, Tail(rows), sensor)
       IN  IF Len(values) # Len(headers) THEN rest
           ELSE LET properties == rowProperties(headers, values)
                    lat == IF Has(properties, "latitude")
                             THEN parseFloat(properties["latitude"]) ELSE NaN
                    lng == IF Has(properties, "longitude")
                             THEN parseFloat(properties["longitude"]) ELSE NaN
                IN  IF ~isNaN(lat) /\ ~isNaN(lng)
                      THEN <<[geometry |-> [coordinates |-> pointCoordinates(lng, lat)],
                              properties |-> properties,
                              sensor |-> sensor]>> \o rest
                      ELSE rest

\* parseCSV(csvText, sensor)
parseCSV(lines, sensor) ==
  IF Len(lines) < 2 THEN <<>> ELSE parseRows(Head(lines), Tail(lines), sensor)

\* no region of the United States
getFireRegionNoUsa(latitude, longitude) ==
  IF /\ ~isNaN(latitude) /\ ~isNaN(longitude)
     /\ 10 * latitude.val >= -269 /\ 10 * latitude.val <= -178
     /\ 10 * longitude.val >= 199 /\ 10 * longitude.val <= 294
    THEN "Botswana (KPR Concession Area)"
  ELSE "Other Region"

\* getFireRegion: the bounds are in tenths of a degree; a comparison with NaN fails
getFireRegion(latitude, longitude) ==
  IF /\ ~isNaN(latitude) /\ ~isNaN(longitude)
     /\ 10 * latitude.val >= -269 /\ 10 * latitude.val <= -178
     /\ 10 * longitude.val >= 199 /\ 10 * longitude.val <= 294
    THEN "Botswana (KPR Concession Area)"
  ELSE IF /\ ~isNaN(latitude) /\ ~isNaN(longitude)
          /\ latitude.val >= 24 /\ latitude.val <= 49
          /\ longitude.val >= -125 /\ longitude.val <= -66
    THEN "United States"
  ELSE "Other Region"

\* formatFireDetails(fire).region of a parsed feature: its latitude and
\* longitude properties are the cells of the row
featureRegion(fire) ==
  getFireRegion(toNumber(fire.properties["latitude"]), toNumber(fire.properties["longitude"]))

\* the result of sendFireAlertNotification: sent counts the calls of
\* emailjs.send, delivered those that resolved
NoFireEmail == [success |-> FALSE, reason |-> "none", sent |-> 0, delivered |-> 0]
\* what sendFireNotifications did: alerts counts its calls of
\* sendFireAlertNotification, transport is what they ran against
NoFireAlert ==
  [called |-> FALSE, consolidated |-> FALSE, alerts |-> 0, fireCount |-> 0,
   latitude |-> NaN, longitude |-> NaN, transport |-> NoTransport, email |-> NoFireEmail]

\* sendFireAlertNotification: [raised, value]
sendFireAlertNotification(fireData, t) ==
  IF ~t.configured
    THEN [raised |-> FALSE,
          value |-> [NoFireEmail EXCEPT !.reason = "EmailJS not configured"]]
  ELSE IF t.initThrows
    THEN [raised |-> TRUE, value |-> NoFireEmail]
  ELSE IF Len(t.recipients) = 0
    THEN [raised |-> FALSE,
          value |-> [NoFireEmail EXCEPT !.reason = "No recipients configured"]]
  ELSE LET successCount ==
             Cardinality({i \in 1..Len(t.recipients) : t.recipients[i] \in t.sendOk})
       IN  [raised |-> FALSE,
            value |-> [success |-> (successCount > 0), reason |-> "sent",
                       sent |-> Len(t.recipients), delivered |-> successCount]]

\* results.email = { success: true, reason: 'No USA fires detected' }
noFiresEmail == [NoFireEmail EXCEPT !.success = TRUE, !.reason = "No USA fires detected"]

\* sendFireNotifications(firesData)
sendFireNotifications(firesData, t) ==
  LET usaFires == SelectSeq(firesData, LAMBDA fire : featureRegion(fire) = "United States")
  IN  IF Len(usaFires) > 0
        THEN LET latitude == at(at(usaFires, 0).geometry.coordinates, 1)
                 longitude == at(at(usaFires, 0).geometry.coordinates, 0)
                 r == sendFireAlertNotification([latitude |-> latitude,
                                                 longitude |-> longitude], t)
             IN  [called |-> TRUE, consolidated |-> TRUE, alerts |-> 1,
                  fireCount |-> Len(usaFires),
                  latitude |-> latitude, longitude |-> longitude, transport |-> t,
                  email |-> IF r.raised
                              THEN [NoFireEmail EXCEPT !.reason = "error"]
                              ELSE r.value]
        ELSE [called |-> TRUE, consolidated |-> FALSE, alerts |-> 0, fireCount |-> 0,
              latitude |-> NaN, longitude |-> NaN, transport |-> t,
              email |-> noFiresEmail]

\* a response of the scheduled fire check: error is the text of its error
\* field, detail the message of the caught exception when the body carries it
NoCronResponse ==
  [status |-> 0, error |-> "", detail |-> "", firesFound |-> 0, notificationsSent |-> FALSE]
CronReply(st, err) == [NoCronResponse EXCEPT !.status = st, !.error = err]
\* catch (error): res.status(500).json({ success: false, error: error.message })
CronError(message) == [NoCronResponse EXCEPT !.status = 500, !.error = message,
                                             !.detail = message]

\* router.get('/') of the scheduled fire check up to the first fetch
CronReceive(authHeader) ==
  /\ cronPc = "idle"
  /\ cronHeader' = authHeader
  /\ cronFetches' = 0
  /\ features' = <<>>
  /\ fireAlert' = NoFireAlert
  /\ IF ~cronAuthorized(authHeader, env.CRON_SECRET)
       THEN /\ cronResponse' = CronReply(401, "Unauthorized")
            /\ UNCHANGED cronPc
     ELSE IF ~env.FIRMS_MAP_KEY
       THEN /\ cronResponse' = CronError("FIRMS_MAP_KEY not configured")
            /\ UNCHANGED cronPc
     ELSE /\ cronResponse' = NoCronResponse
          /\ cronPc' = "fetch"
  /\ UNCHANGED <<adminVars, createVars, authVars, env, clientFeature>>

\* the two fetches and the parse: a fetch throws, or resolves with ok and a text
CronFetch(viirs, modis) ==
  /\ cronPc = "fetch"
  /\ IF viirs.thrown
       THEN /\ cronFetches' = 1
            /\ cronResponse' = CronError("fetch failed")
            /\ cronPc' = "idle"
            /\ UNCHANGED features
     ELSE IF modis.thrown
       THEN /\ cronFetches' = 2
            /\ cronResponse' = CronError("fetch failed")
            /\ cronPc' = "idle"
            /\ UNCHANGED features
     ELSE IF ~viirs.ok \/ ~modis.ok
       THEN /\ cronFetches' = 2
            /\ cronResponse' = CronError("Failed to fetch fire data from FIRMS")
            /\ cronPc' = "idle"
            /\ UNCHANGED features
     ELSE /\ cronFetches' = 2
          /\ features' = parseCSV(viirs.text, "VIIRS") \o parseCSV(modis.text, "MODIS")
          /\ cronPc' = "notify"
          /\ UNCHANGED cronResponse
  /\ UNCHANGED <<adminVars, createVars, authVars, env, cronHeader, fireAlert, clientFeature>>

\* await sendFireNotifications(features), then the response
CronNotify(t) ==
  /\ cronPc = "notify"
  /\ fireAlert' = sendFireNotifications(features, t)
  /\ cronResponse' = [status |-> 200, error |-> "", detail |-> "",
                      firesFound |-> Len(features),
                      notificationsSent |-> fireAlert'.email.success]
  /\ cronPc' = "idle"
  /\ UNCHANGED <<adminVars, createVars, authVars, env, cronHeader, cronFetches, features, clientFeature>>

\* createGeoJSON of the client: the feature built from the captured location
createGeoJSON(location) ==
  [geometry |-> [coordinates |-> pointCoordinates(location.coords.longitude,
                                                  location.coords.latitude)]]

CapturePoint(location) ==
  /\ clientFeature' = [captured |-> TRUE, location |-> location,
                       feature |-> createGeoJSON(location)]
  /\ UNCHANGED <<adminVars, createVars, authVars, env, cronPc, cronHeader, cronFetches, features,
                 fireAlert, cronResponse>>

(***************************************************************************)
(* admin.js: the user operations behind requireAdmin.  A user document is  *)
(* [id, email, uid, name, status]; role and the password hash are left out. *)
(***************************************************************************)
\* process.env.ADMIN_API_KEY || 'wildlife_admin_2024'
defaultAdminKey == <<"w","a","2","4">>

\* !(!adminKey || adminKey !== expectedAdminKey)
requireAdmin(adminKeyHeader, configured) ==
  LET expectedAdminKey == IF configured # <<>> THEN configured ELSE defaultAdminKey
  IN  ~(adminKeyHeader = <<>> \/ adminKeyHeader # expectedAdminKey)

NoAdminRequest == [op |-> "none", key |-> <<>>, userId |-> <<>>, name |-> <<>>, arg |-> <<>>]
NoAdminResponse == [status |-> 0, message |-> "", users |-> <<>>]
AdminReply(st, msg) == [status |-> st, message |-> msg, users |-> <<>>]
Untouched == [read |-> FALSE, wrote |-> FALSE]

\* the position of the document userId in the store, 0 if there is none
userIndex(us, userId) ==
  IF \E i \in 1..Len(us) : us[i].id = userId
    THEN CHOOSE i \in 1..Len(us) : us[i].id = userId
    ELSE 0

\* one request to the admin router: list, get, create, update, status, delete.
\* name is the name of create and update, arg the email of create and the
\* status of status
AdminRequest(r) ==
  /\ adminReq' = r
  /\ IF ~requireAdmin(r.key, env.ADMIN_API_KEY)
       THEN /\ adminResponse' = AdminReply(401, "Admin authentication required")
            /\ adminTouched' = Untouched
            /\ UNCHANGED users
     ELSE LET i == userIndex(users, r.userId)
          IN
          CASE r.op = "list" ->
                 /\ adminResponse' = [status |-> 200, message |-> "", users |-> users]
                 /\ adminTouched' = [read |-> TRUE, wrote |-> FALSE]
                 /\ UNCHANGED users
            [] r.op = "get" ->
                 /\ adminResponse' = IF i = 0 THEN AdminReply(404, "User not found")
                                     ELSE [status |-> 200, message |-> "", users |-> <<users[i]>>]
                 /\ adminTouched' = [read |-> TRUE, wrote |-> FALSE]
                 /\ UNCHANGED users
            [] r.op = "create" ->
                 LET email == r.arg
                     docId == emailPrefix \o replaceNonAlnum(toLowerCase(email))
                 IN  IF r.name = <<>> \/ email = <<>>
                       THEN /\ adminResponse' = AdminReply(400, "Name, email, and password are required")
                            /\ adminTouched' = Untouched
                            /\ UNCHANGED users
                     ELSE IF userIndex(users, docId) # 0
                       THEN /\ adminResponse' = AdminReply(400, "A user with this email already exists")
                            /\ adminTouched' = [read |-> TRUE, wrote |-> FALSE]
                            /\ UNCHANGED users
                     ELSE /\ users' = Append(users, [id |-> docId, uid |-> docId,
                                                     name |-> trim(r.name),
                                                     email |-> trim(toLowerCase(email)),
                                                     status |-> "active"])
                          /\ adminResponse' = AdminReply(200, "User created successfully")
                          /\ adminTouched' = [read |-> TRUE, wrote |-> TRUE]
            [] r.op = "update" ->
                 IF i = 0
                   THEN /\ adminResponse' = AdminReply(404, "User not found")
                        /\ adminTouched' = [read |-> TRUE, wrote |-> FALSE]
                        /\ UNCHANGED users
                   ELSE /\ users' = IF trim(r.name) # <<>>
                                      THEN [users EXCEPT ![i].name = trim(r.name)]
                                      ELSE users
                        /\ adminResponse' = AdminReply(200, "User updated successfully")
                        /\ adminTouched' = [read |-> TRUE, wrote |-> TRUE]
            [] r.op = "status" ->
                 IF r.arg \notin {"active", "revoked"}
                   THEN /\ adminResponse' = AdminReply(400, "Invalid status")
                        /\ adminTouched' = Untouched
                        /\ UNCHANGED users
                 ELSE IF i = 0
                   THEN /\ adminResponse' = AdminReply(404, "User not found")
                        /\ adminTouched' = [read |-> TRUE, wrote |-> FALSE]
                        /\ UNCHANGED users
                   ELSE /\ users' = [users EXCEPT ![i].status = r.arg]
                        /\ adminResponse' = AdminReply(200, "User status updated")
                        /\ adminTouched' = [read |-> TRUE, wrote |-> TRUE]
            [] r.op = "delete" ->
                 IF i = 0
                   THEN /\ adminResponse' = AdminReply(404, "User not found")
                        /\ adminTouched' = [read |-> TRUE, wrote |-> FALSE]
                        /\ UNCHANGED users
                   ELSE /\ users' = RemoveAt(users, i)
                        /\ adminResponse' = AdminReply(200, "User deleted successfully")
                        /\ adminTouched' = [read |-> TRUE, wrote |-> TRUE]
  /\ UNCHANGED <<dbAvailable, observations, blobs, now, pc, req, observationData, response,
                 dispatch, userReads, readFailed, upload, snap>>
  /\ UNCHANGED <<authVars, env, fireVars>>

(***************************************************************************)
(* Inputs: the requests, the user stores and the transports that the       *)
(* specifications draw from.                                               *)
(***************************************************************************)
sPatrol == <<"P","a","t","r","o","l">>
sLion == <<"L","i","o","n">>
sFence == <<"F","e","n","c","e">>
ptBogus == <<"B","o","g","u","s">>
itPoaching == <<"P","o","a","c","h","i","n","g"," ","-"," ","S","n","a","r","e">>
itSnare == <<"S","n","a","r","e"," ","f","o","u","n","d">>
itFire == <<"F","i","r","e">>
fnPhoto == <<"c","a","m"," ","1",".","j","p","g">>
b64Data == <<"Q","U","J","D">>
idAl == <<"e","m","a","i","l","_","a","l","_","x">>
mailAl == <<"a","l","@","x">>
nameAl == <<"A","l">>
idAli == <<"u","2">>
mailAli == <<"a","l","i","@","x">>
nameAli == <<"A","l","i">>
nameAlf == <<"A","l","f">>
nameZed == <<"Z","e","d">>

\* a user created by the admin API: keyed by email_<sanitised email>, uid = key
userAl(status) ==
  [id |-> idAl, uid |-> idAl, email |-> mailAl, name |-> nameAl, status |-> status]
\* a user keyed by an authentication uid
userAli(status) ==
  [id |-> idAli, uid |-> idAli, email |-> mailAli, name |-> nameAli, status |-> status]

Statuses == {"active", "revoked"}

DefaultUsers == <<userAl("active"), userAli("revoked")>>

UserStores ==
  {<<>>}
  \cup {<<userAl(a)>> : a \in Statuses}
  \cup {<<userAli(b)>> : b \in Statuses}
  \cup {<<userAl(a), userAli(b)>> : a \in Statuses, b \in Statuses}
  \cup {<<userAli(b), userAl(a)>> : a \in Statuses, b \in Statuses}

Cat(c) == "category" :> c
SightingBody == Cat(sSighting) @@ ("animal" :> sLion)

\* category and the fields it requires, present or not
TypeBodies ==
  {EmptyObj, Cat(sSighting), SightingBody, Cat(sIncident), Cat(sMaintenance),
   Cat(sMaintenance) @@ ("maintenance_type" :> sFence), Cat(sPatrol)}
  \cup {Cat(sIncident) @@ ("incident_type" :> itPoaching) @@ pt :
          pt \in {EmptyObj, "poaching_type" :> ptSnare, "poaching_type" :> ptBogus}}
  \cup {Cat(sIncident) @@ ("incident_type" :> itSnare) @@ pt :
          pt \in {EmptyObj, "poaching_type" :> ptBogus}}
  \cup {Cat(sIncident) @@ ("incident_type" :> itFire)}

\* every field at once, under each category
ExtraBodies ==
  {Cat(c) @@ ("animal" :> sLion) @@ ("incident_type" :> itPoaching)
     @@ ("poaching_type" :> ptCarcass) @@ ("maintenance_type" :> sFence)
     @@ ("pride_name" :> sLion) @@ ("poached_animal" :> sLion) :
       c \in {sSighting, sIncident, sMaintenance}}

\* coordinates and a client timestamp; the timestamp 0
GpsBodies ==
  {SightingBody @@ g :
     g \in {"latitude" :> -25, "longitude" :> 28,
            ("latitude" :> -25) @@ ("longitude" :> 28),
            ("latitude" :> -25) @@ ("longitude" :> 28) @@ ("timestamp" :> 1),
            "timestamp" :> 0}}

\* a known active user, a known revoked user; a category outside the three
UserBodies ==
  {b @@ ("user" :> u) : b \in {SightingBody, Cat(sSighting), Cat(sPatrol)}, u \in {idAl, idAli}}

Base64Body(b) == b @@ ("poaching_image" :> b64Data) @@ ("poaching_image_name" :> fnPhoto)

ImageRequests ==
  {[body |-> SightingBody, file |-> fnPhoto],
   [body |-> Base64Body(Cat(sIncident) @@ ("incident_type" :> itPoaching)
                          @@ ("poaching_type" :> ptSnare)), file |-> <<>>],
   [body |-> Base64Body(Cat(sSighting)), file |-> <<>>],
   [body |-> SightingBody @@ ("poaching_image" :> b64Data), file |-> <<>>]}

Requests ==
  {[body |-> b, file |-> <<>>] : b \in TypeBodies \cup ExtraBodies \cup GpsBodies \cup UserBodies}
  \cup ImageRequests

\* the identifiers a submission may carry in the revocation specification
Identifiers == {idAl, mailAl, nameAl, idAli, mailAli, nameAli, nameAlf, nameZed}

RevRequests ==
  {[body |-> b @@ ("user" :> u), file |-> <<>>] :
     b \in {SightingBody, Cat(sSighting)}, u \in Identifiers}

Recipients == {"r1", "r2"}

Transports ==
  {[configured |-> FALSE, initThrows |-> FALSE, recipients |-> <<>>, sendOk |-> {}],
   [configured |-> TRUE, initThrows |-> TRUE, recipients |-> <<>>, sendOk |-> {}]}
  \cup {[configured |-> TRUE, initThrows |-> FALSE, recipients |-> rs, sendOk |-> ok] :
          rs \in {<<>>, <<"r1">>, <<"r1", "r2">>}, ok \in SUBSET Recipients}

\* process.env
cronSecret == <<"s","3">>
apiKey == <<"k","1">>
adminKey == <<"a","9">>
DefaultEnv ==
  [CRON_SECRET |-> cronSecret, FIRMS_MAP_KEY |-> TRUE, API_KEY |-> apiKey,
   ADMIN_API_KEY |-> adminKey, NODE_ENV |-> "production"]
NodeEnvs == {"production", "development"}
FireEnvs ==
  {[DefaultEnv EXCEPT !.CRON_SECRET = c, !.FIRMS_MAP_KEY = f, !.NODE_ENV = n] :
     c \in {<<>>, cronSecret}, f \in BOOLEAN, n \in NodeEnvs}

ApiEnvs == {[DefaultEnv EXCEPT !.API_KEY = k, !.NODE_ENV = n] :
             k \in {<<>>, apiKey}, n \in NodeEnvs}

\* the key of a request: absent, right or wrong in the header, right in the
\* query, wrong in the header with the right one in the query
ApiKeys ==
  {[header |-> <<>>, query |-> <<>>], [header |-> apiKey, query |-> <<>>],
   [header |-> <<"k","2">>, query |-> <<>>], [header |-> <<>>, query |-> apiKey],
   [header |-> <<"k","2">>, query |-> apiKey]}
Keyed(r, k) == [body |-> r.body, file |-> r.file, apiKey |-> k]
ApiCreateRequests ==
  {Keyed(r, k) :
     r \in {[body |-> SightingBody, file |-> fnPhoto],
            [body |-> SightingBody @@ ("user" :> nameAl), file |-> <<>>],
            [body |-> Cat(sIncident) @@ ("incident_type" :> itPoaching)
                        @@ ("poaching_type" :> ptSnare), file |-> <<>>]},
     k \in ApiKeys}
ApiMapRequests == {Keyed(MapRequest, k) : k \in ApiKeys}
ApiImageRequests ==
  {Keyed([body |-> ("image" :> id), file |-> <<>>], k) : id \in 1..2, k \in ApiKeys}

AdminEnvs == {[DefaultEnv EXCEPT !.ADMIN_API_KEY = k] : k \in {<<>>, adminKey}}
\* x-api-key of an admin request: absent, the configured key, the built-in
\* default, another key
AdminKeys == {<<>>, adminKey, defaultAdminKey, <<"a","0">>}
idNobody == <<"u","0">>
AdminRequests ==
  {[op |-> o, key |-> k, userId |-> u, name |-> <<>>, arg |-> <<>>] :
     o \in {"list"}, k \in AdminKeys, u \in {<<>>}}
  \cup {[op |-> o, key |-> k, userId |-> u, name |-> <<>>, arg |-> <<>>] :
          o \in {"get", "delete"}, k \in AdminKeys, u \in {idAl, idAli, idNobody}}
  \cup {[op |-> "create", key |-> k, userId |-> <<>>, name |-> n, arg |-> e] :
          k \in AdminKeys, n \in {nameZed, <<>>}, e \in {mailAl, <<"Z","@","x">>}}
  \cup {[op |-> "update", key |-> k, userId |-> u, name |-> n, arg |-> <<>>] :
          k \in AdminKeys, u \in {idAl, idNobody}, n \in {nameAlf, <<" ">>}}
  \cup {[op |-> "status", key |-> k, userId |-> u, name |-> <<>>, arg |-> st] :
          k \in AdminKeys, u \in {idAl, idAli, idNobody}, st \in {"active", "revoked", "banned"}}

\* Authorization headers: none, the secret as a Bearer token, another token, no
\* token, the secret under another scheme, the bare secret
CronHeaders ==
  {<<>>, bearerPrefix \o cronSecret, bearerPrefix \o <<"s","4">>, bearerPrefix,
   <<"B","a","s","i","c"," ">> \o cronSecret, cronSecret}

\* feeds: rows in the United States, in Botswana, unreadable, short; the
\* columns in either order
hdrLatLng == <<"latitude", "longitude", "confidence">>
hdrLngLat == <<"longitude", "latitude", "confidence">>
c35 == <<"3","5">>
cm90 == <<"-","9","0">>
cm19 == <<"-","1","9">>
c23 == <<"2","3">>
cN == <<"n">>
c80 == <<" ","8","0">>
FeedTexts ==
  {<<hdrLatLng>>,
   <<hdrLatLng, <<c35, cm90, c80>> >>,
   <<hdrLatLng, <<cm19, c23, c80>>, <<c35, cm90, c80>> >>,
   <<hdrLatLng, <<cN, c23, c80>>, <<c35, cm90>> >>,
   <<hdrLngLat, <<cm90, c35, c80>> >>}
FetchOutcomes ==
  {[thrown |-> TRUE, ok |-> FALSE, text |-> <<>>],
   [thrown |-> FALSE, ok |-> FALSE, text |-> <<>>]}
  \cup {[thrown |-> FALSE, ok |-> TRUE, text |-> x] : x \in FeedTexts}

\* GPS fixes of the client
NoLocation == [coords |-> [latitude |-> Num(0), longitude |-> Num(0)]]
Locations ==
  {[coords |-> [latitude |-> Num(-19), longitude |-> Num(23)]],
   [coords |-> [latitude |-> Num(35), longitude |-> Num(-90)]]}

\* the reads of the user store that can be made to throw (0: none)
FailAts == 0..3

mailLower == <<"a","@","x",".","c">>
mailUpper == <<"A","@","x",".","c">>
mailBad == <<"a","x",".","c">>
namePadded == <<" ","A","l">>
\* the numbers 123456 and 7 sent where a string is expected
numPin == <<numberTag, "1","2","3","4","5","6">>
numEmail == <<numberTag, "7">>
\* the PINs typed at verify-pin: the one generatePin returned, and another
Pins == {<<"1","2","3","4","5","6">>, <<"6","5","4","3","2","1">>}

\* request-pin bodies <<email, name, generated pin>>: a well-formed one, then one
\* for each rejection.  The store only compares the hash of a typed PIN with
\* the stored one, so one generated value, typed or mistyped, gives every
\* outcome of the comparison.
RequestInputs ==
  {<<mailUpper, namePadded, <<"1","2","3","4","5","6">> >>}
  \cup {<<e, namePadded, <<"1","2","3","4","5","6">> >> : e \in {mailBad, <<>>}}
  \cup {<<mailUpper, <<>>, <<"1","2","3","4","5","6">> >>}

\* verify-pin bodies <<email, pin>>
VerifyInputs ==
  {<<e, p>> : e \in {mailLower, mailUpper}, p \in Pins}
  \cup {<<e, <<"1","2","3","4","5","6">> >> : e \in {mailBad, <<>>}}
  \cup {<<mailLower, <<>> >>, <<mailLower, numPin>>, <<numEmail, <<"1","2","3","4","5","6">> >>}


(***************************************************************************)
(* Specifications.                                                         *)
(***************************************************************************)
InitCommon ==
  /\ observations = <<>>
  /\ blobs = <<>>
  /\ now = 0
  /\ pc = "idle"
  /\ req = NoRequest
  /\ observationData = EmptyObj
  /\ response = NoResponse
  /\ dispatch = NoDispatch
  /\ userReads = 0
  /\ readFailed = FALSE
  /\ upload = "none"
  /\ snap = [observations |-> 0, blobs |-> 0]
  /\ pinStore = EmptyObj
  /\ clock = 0
  /\ requesting = <<>>
  /\ verifying = <<>>
  /\ tokens = {}
  /\ authResponse = NoAuthResponse
  /\ issued = 0
  /\ consumed = {}
  /\ adminReq = NoAdminRequest
  /\ adminResponse = NoAdminResponse
  /\ adminTouched = Untouched
  /\ cronPc = "idle"
  /\ cronHeader = <<>>
  /\ cronFetches = 0
  /\ features = <<>>
  /\ fireAlert = NoFireAlert
  /\ cronResponse = NoCronResponse
  /\ clientFeature = [captured |-> FALSE, location |-> NoLocation,
                      feature |-> createGeoJSON(NoLocation)]

\* the create pipeline over the request shapes, with a fixed user store
Init ==
  /\ env = DefaultEnv
  /\ dbAvailable \in BOOLEAN
  /\ users = DefaultUsers
  /\ InitCommon

Next ==
  \/ \E r \in Requests : CreateReceive(r, 0)
  \/ \E ok \in BOOLEAN : CreateUpload(ok)
  \/ \E ok \in BOOLEAN : CreateInsert(ok)
  \/ \E t \in Transports : CreateNotify(t)
  \/ \E ok \in BOOLEAN : GetObservations(ok)

Spec == Init /\ [][Next]_vars

\* the revocation gate over the user stores and the identifiers
RevInit ==
  /\ env = DefaultEnv
  /\ dbAvailable = TRUE
  /\ users \in UserStores
  /\ InitCommon

RevNext ==
  \/ \E r \in RevRequests, failAt \in FailAts : CreateReceive(r, failAt)
  \/ \E ok \in BOOLEAN : CreateInsert(ok)

RevSpec == RevInit /\ [][RevNext]_vars

\* the passcode endpoints, with overlapping requests
AuthInit ==
  /\ env = DefaultEnv
  /\ dbAvailable = TRUE
  /\ users = <<>>
  /\ InitCommon

AuthNext ==
  \/ \E b \in RequestInputs : RequestPin(b[1], b[2], b[3])
  \/ \E i \in 1..MaxInflight, ok \in BOOLEAN : RequestPinSent(i, ok)
  \/ \E b \in VerifyInputs : VerifyPin(b[1], b[2])
  \/ \E i \in 1..MaxInflight, ok \in BOOLEAN : VerifyPinToken(i, ok)
  \/ Sweep
  \/ Tick

AuthSpec == AuthInit /\ [][AuthNext]_vars

\* the observations router behind its middleware, under every configuration
ApiInit ==
  /\ env \in ApiEnvs
  /\ dbAvailable \in BOOLEAN
  /\ users = DefaultUsers
  /\ InitCommon

ApiNext ==
  \/ \E r \in ApiCreateRequests : ApiCreate(r, 0)
  \/ \E ok \in BOOLEAN : CreateUpload(ok)
  \/ \E ok \in BOOLEAN : CreateInsert(ok)
  \/ \E t \in Transports : CreateNotify(t)
  \/ \E r \in ApiMapRequests, ok \in BOOLEAN : ApiMap(r, ok)
  \/ \E r \in ApiImageRequests, exists \in BOOLEAN, ok \in BOOLEAN : ApiImage(r, exists, ok)

ApiSpec == ApiInit /\ [][ApiNext]_vars

\* the admin router over a user store, with and without a configured key
AdminInit ==
  /\ env \in AdminEnvs
  /\ dbAvailable = TRUE
  /\ users = DefaultUsers
  /\ InitCommon

AdminNext == \E r \in AdminRequests : AdminRequest(r)

AdminSpec == AdminInit /\ [][AdminNext]_vars

\* the scheduled fire check under every configuration, and the client's capture
FireInit ==
  /\ env \in FireEnvs
  /\ dbAvailable = TRUE
  /\ users = <<>>
  /\ InitCommon

FireNext ==
  \/ \E h \in CronHeaders : CronReceive(h)
  \/ \E v \in FetchOutcomes, m \in FetchOutcomes : CronFetch(v, m)
  \/ \E t \in Transports : CronNotify(t)
  \/ \E l \in Locations : CapturePoint(l)

FireSpec == FireInit /\ [][FireNext]_vars

(***************************************************************************)
(* Properties.                                                             *)
(***************************************************************************)
\* req is a create request and its response has been sent
Answered == pc = "idle" /\ req # NoRequest /\ req # MapRequest

\* the handling of req has inserted a record / saved a blob
Inserted == Len(observations) = snap.observations + 1
NothingInserted == Len(observations) = snap.observations
NothingSaved == Len(blobs) = snap.blobs

\* the category's required field is missing, or the category itself
LacksRequired(body) ==
  \/ ~Truthy(body, "category")
  \/ body["category"] = sSighting /\ ~Truthy(body, "animal")
  \/ body["category"] = sIncident /\ ~Truthy(body, "incident_type")
  \/ body["category"] = sMaintenance /\ ~Truthy(body, "maintenance_type")

\* some user document has this identifier as key, email_ key, uid, email or name
Denotes(doc, u) ==
  doc.id = u \/ doc.id = emailDocId(u) \/ doc.uid = u \/ doc.email = u \/ doc.name = u
DenotedDocs(us, u) == {i \in 1..Len(us) : Denotes(us[i], u)}

\* C1, as stated: a create request lacking its category or the field its
\* category requires is answered 400 and inserts nothing (here only for the
\* requests made while the store is initialized).
C1_Original ==
  (Answered /\ dbAvailable /\ LacksRequired(req.body)) =>
    (response.status = 400 /\ NothingInserted)

\* C1, amended: such a request never inserts or saves anything, and is
\* answered 400 unless an earlier gate answered it: 503 when the store is not
\* initialized, 403 when its user identifier is the key of a revoked user.
C1_RejectedNeverPersisted ==
  (Answered /\ LacksRequired(req.body)) =>
    /\ NothingInserted /\ NothingSaved
    /\ response.status =
         (IF ~dbAvailable THEN 503
          ELSE IF Truthy(req.body, "user")
                  /\ \E i \in DenotedDocs(users, req.body["user"]) : users[i].status = "revoked"
            THEN 403
          ELSE 400)

C1_Witness ==
  /\ Answered /\ LacksRequired(req.body) /\ Truthy(req.body, "category")
  /\ response.status = 400 /\ Len(observations) > 0

\* the incident type matches one of the classification keywords and the
\* poaching type is missing or not one of the four values
PoachingWithoutValidType(body) ==
  /\ Has(body, "category") /\ body["category"] = sIncident
  /\ Truthy(body, "incident_type")
  /\ \E k \in poachingKeywords : includes(toLowerCase(body["incident_type"]), k)
  /\ (~Truthy(body, "poaching_type") \/ body["poaching_type"] \notin validPoachingTypes)

\* C2: an Incident whose incident_type matches a poaching keyword (poach,
\* illegal hunting, snare, trap) and whose poaching_type is missing or invalid
\* is answered 400 and nothing is persisted (here only for the requests made
\* while the store is initialized and accepts the insert).
C2_PoachingTypeRequired ==
  (Answered /\ dbAvailable /\ response.status # 500 /\ PoachingWithoutValidType(req.body)) =>
    (response.status = 400 /\ NothingInserted)

\* C3: when the user identifier of a submission denotes a revoked user
\* document, the request is answered 403 and nothing is persisted, whatever
\* else the user store holds (here only for the requests with a valid payload
\* during which no read of the user store and no insert failed).
C3_RevokedRejected ==
  (Answered /\ ~readFailed /\ response.status # 500 /\ ~LacksRequired(req.body)
     /\ Truthy(req.body, "user")
     /\ \E i \in DenotedDocs(users, req.body["user"]) : users[i].status = "revoked")
  => (response.status = 403 /\ NothingInserted)

\* C4: a submission whose user identifier denotes no user document is never
\* answered 403, whatever the user store holds: with a valid payload it is
\* persisted and answered 201 (unless the insert itself fails).
C4_UnknownAllowed ==
  (Answered /\ Truthy(req.body, "user") /\ DenotedDocs(users, req.body["user"]) = {})
  => /\ response.status # 403
     /\ (~LacksRequired(req.body) /\ response.status # 500) =>
          (response.status = 201 /\ Inserted)

\* C5: every record the map read returns carries a latitude and a longitude;
\* a stored record lacking either is in neither data nor count, and the read
\* leaves the store as it was.
C5_MapOnlyLocated ==
  (pc = "idle" /\ req = MapRequest /\ response.status = 200) =>
    LET data == response.data["data"]
    IN  /\ \A i \in 1..Len(data) : Has(data[i], "latitude") /\ Has(data[i], "longitude")
        /\ response.data["count"] = Len(data)
        /\ \A k \in 1..Len(observations) :
             (~Has(observations[k].data, "latitude") \/ ~Has(observations[k].data, "longitude"))
               => \A i \in 1..Len(data) : data[i]["id"] # observations[k].id
        /\ response.data["count"] =
             Cardinality({k \in 1..Len(observations) :
                            Has(observations[k].data, "latitude")
                            /\ Has(observations[k].data, "longitude")})
        /\ NothingInserted

C5_Witness ==
  /\ pc = "idle" /\ req = MapRequest /\ response.status = 200
  /\ response.data["count"] = 1 /\ Len(observations) = 2

HasImageFields(obj) == Has(obj, "image_path") \/ Has(obj, "image_filename")

\* C6, as stated: when the upload of the image fails, the record is inserted
\* and the response is 201, without image_path or image_filename.
C6_Original ==
  (Answered /\ upload = "failed") =>
    /\ response.status = 201 /\ Inserted
    /\ ~HasImageFields(response.data)
    /\ ~HasImageFields(observations[Len(observations)].data)

\* C6, amended: a failed upload never ends the request: the insert is still
\* attempted, and when the insert succeeds the record is stored and answered
\* 201, neither carrying image_path or image_filename (when the insert itself
\* throws the answer is 500); the two fields are present only when the
\* upload succeeded, and then name a saved blob.
C6_UploadFailureNotFatal ==
  /\ (upload = "failed" /\ ~Answered) => pc \in {"insert", "notify"}
  /\ (upload = "failed" /\ (Answered \/ pc = "notify")) =>
       IF Inserted
         THEN /\ ~HasImageFields(observations[Len(observations)].data)
              /\ Answered => (response.status = 201 /\ ~HasImageFields(response.data))
         ELSE response.status = 500
  /\ (Answered /\ response.status = 201 /\ HasImageFields(response.data)) => upload = "ok"
  /\ \A k \in 1..Len(observations) :
       HasImageFields(observations[k].data) =>
         /\ Has(observations[k].data, "image_path") /\ Has(observations[k].data, "image_filename")
         /\ observations[k].data["image_path"] \in Range(blobs)

C6_Witness ==
  Answered /\ upload = "failed" /\ response.status = 201 /\ Inserted

\* C7: a create request answered 503, 403, 400 or 500 has written nothing to
\* the observation store and nothing to the blob store.
C7_NoPartialWrite ==
  (Answered /\ response.status \in {503, 403, 400, 500}) =>
    (NothingInserted /\ NothingSaved)

\* C8: with the store not initialized, a create request is answered 503 and
\* makes no user-store read, no upload, no insert and no dispatch.
C8_UnavailableDoesNothing ==
  ~dbAvailable =>
    /\ pc = "idle" /\ observations = <<>> /\ blobs = <<>>
    /\ userReads = 0 /\ upload = "none" /\ ~dispatch.called
    /\ Answered => response.status = 503

C8_Witness ==
  ~dbAvailable /\ Answered /\ Truthy(req.body, "user") /\ response.status = 503

\* C9: the dispatcher never raises, whatever the transport does, and a create
\* request whose insert succeeded is answered 201 with the stored record.
C9_NotificationContained ==
  /\ ~dispatch.raised
  /\ (Answered /\ Inserted) =>
       /\ response.status = 201
       /\ response.data = ("id" :> observations[Len(observations)].id)
                          @@ observations[Len(observations)].data

C9_Witness ==
  /\ Answered /\ Inserted /\ dispatch.called /\ ~dispatch.email.success
  /\ dispatch.email.reason = "error" /\ response.status = 201

C12_Original ==
  /\ \A k \in DOMAIN pinStore : pinStore[k].attempts <= MaxAttempts
  /\ (authResponse.kind = "verify" /\ authResponse.locked) =>
       /\ authResponse.status = 400 /\ ~authResponse.token
       /\ authResponse.key \notin DOMAIN pinStore

C12_Capped ==
  /\ \A k \in DOMAIN pinStore : pinStore[k].attempts <= MaxAttempts
  /\ (authResponse.kind = "verify" /\ authResponse.locked) =>
       /\ authResponse.status = 400 /\ ~authResponse.token
       /\ authResponse.message # "Email and PIN are required" =>
            authResponse.key \notin DOMAIN pinStore

C12_GrowsByOne ==
  \A k \in DOMAIN pinStore \cap DOMAIN pinStore' :
    pinStore'[k].issue = pinStore[k].issue =>
      \/ pinStore'[k].attempts = pinStore[k].attempts
      \/ /\ pinStore'[k].attempts = pinStore[k].attempts + 1
         /\ authResponse'.kind = "verify" /\ authResponse'.key = k
         /\ authResponse'.message = "Invalid PIN"

\* C12: for one issued PIN the counter grows only by one, at a mismatched
\* verify-pin, and never exceeds MaxAttempts; a verify-pin that arrives when
\* MaxAttempts mismatches are recorded is answered 400 and issues no token, and
\* it removes the entry unless it carries no PIN.
C12_AttemptsCap == []C12_Capped /\ [][C12_GrowsByOne]_vars

\* the correct PIN or any other, refused after MaxAttempts mismatches
C12_Witness ==
  /\ authResponse.kind = "verify" /\ authResponse.locked
  /\ authResponse.message = "Too many failed attempts"
  /\ authResponse.key \notin DOMAIN pinStore
\* C13: a scheduled fire check whose Authorization header is missing, is not a
\* Bearer token or carries a token other than the configured secret, and every
\* call when no secret is configured, is answered 401 with no fetch of the
\* feed made and no notification attempted.
C13_CronRejected ==
  LET h == cronHeader
      presented == h # <<>> /\ startsWith(h, bearerPrefix)
                     /\ slice(h, Len(bearerPrefix)) = env.CRON_SECRET
  IN  (cronResponse.status # 0 /\ (env.CRON_SECRET = <<>> \/ ~presented)) =>
        /\ cronResponse.status = 401
        /\ cronPc = "idle"
        /\ cronFetches = 0
        /\ ~fireAlert.called

\* a secret is configured and the call carries another token
C13_Witness ==
  /\ env.CRON_SECRET # <<>> /\ startsWith(cronHeader, bearerPrefix)
  /\ slice(cronHeader, 7) # env.CRON_SECRET /\ slice(cronHeader, 7) # <<>>
  /\ cronResponse.status = 401 /\ cronFetches = 0
\* the key req carries is absent or is not the configured one
BadKey ==
  LET k == req.apiKey
  IN  \/ env.API_KEY = <<>>
      \/ (k.header = <<>> /\ k.query # env.API_KEY)
      \/ (k.header # <<>> /\ k.header # env.API_KEY)

\* C14: a request to create, map list or image whose API key is absent or
\* differs from the configured one, and every request when none is configured,
\* is answered 401 and nothing else happens: no user or observation read, no
\* upload, no insert, no dispatch, no data in the response.
C14_KeyRequired ==
  ("apiKey" \in DOMAIN req /\ BadKey) =>
    /\ response.status = 401 /\ response.data = EmptyObj
    /\ pc = "idle"
    /\ userReads = 0 /\ upload = "none" /\ ~dispatch.called
    /\ NothingInserted /\ NothingSaved

\* the store holds a record with an image and a request without a key is refused
C14_Witness ==
  /\ "apiKey" \in DOMAIN req /\ req.apiKey = [header |-> <<>>, query |-> <<>>]
  /\ env.API_KEY # <<>>
  /\ response.status = 401
  /\ Len(observations) > 0 /\ Len(blobs) > 0
\* C15: an admin user operation whose x-api-key header is not the configured
\* admin key is answered 401 and neither reads nor writes the user store.
C15_AdminKeyRequired ==
  (adminReq.op # "none"
     /\ ~(env.ADMIN_API_KEY # <<>> /\ adminReq.key = env.ADMIN_API_KEY)) =>
    /\ adminResponse.status = 401
    /\ ~adminTouched.read /\ ~adminTouched.wrote
\* C16: in production mode no response carries the message of an exception:
\* neither the details of the observation routes nor the error of the
\* scheduled fire check.
C16_NoDetailInProduction ==
  env.NODE_ENV = "production" => response.details = "" /\ cronResponse.detail = ""
\* every 201 response is that of one record inserted for the request, with the
\* returned id and the returned fields; ids are never given twice
C17_Mirrors ==
  /\ \A j, k \in 1..Len(observations) : observations[j].id = observations[k].id => j = k
  /\ response.status = 201 =>
       /\ Inserted
       /\ LET doc == observations[Len(observations)]
          IN  response.data = ("id" :> doc.id) @@ doc.data

\* a step leaves the stored observations as they are or appends one, in the
\* insert of create
C17_AppendOnly ==
  \/ observations' = observations
  \/ /\ Len(observations') = Len(observations) + 1
     /\ SubSeq(observations', 1, Len(observations)) = observations
     /\ pc = "insert"

RowLat(f) == parseFloat(f.properties["latitude"])
RowLng(f) == parseFloat(f.properties["longitude"])
InUsa(f) ==
  /\ RowLat(f).val >= 24 /\ RowLat(f).val <= 49
  /\ RowLng(f).val >= -125 /\ RowLng(f).val <= -66

\* C18: every GeoJSON point produced has coordinates [longitude, latitude]: the
\* feature the client builds from its fix and every feature parsed from a feed
\* row; the consolidated alert takes its latitude from index 1 and its
\* longitude from index 0, those of the first fire in the United States.
C18_LngLatOrder ==
  /\ \A i \in 1..Len(features) :
       features[i].geometry.coordinates = <<RowLng(features[i]), RowLat(features[i])>>
  /\ clientFeature.captured =>
       clientFeature.feature.geometry.coordinates =
         <<clientFeature.location.coords.longitude, clientFeature.location.coords.latitude>>
  /\ fireAlert.consolidated =>
       \E i \in 1..Len(features) :
         /\ InUsa(features[i]) /\ \A j \in 1..(i - 1) : ~InUsa(features[j])
         /\ fireAlert.latitude = RowLat(features[i])
         /\ fireAlert.longitude = RowLng(features[i])

\* a fire in the United States and one elsewhere: the alert has the former's
C18_Witness ==
  /\ fireAlert.consolidated /\ clientFeature.captured
  /\ fireAlert.latitude = Num(35) /\ fireAlert.longitude = Num(-90)
  /\ \E i \in 1..Len(features) : ~InUsa(features[i])
\* a record of category Incident whose incident_type contains, whatever the
\* case, poach, illegal hunting, snare or trap
PoachingRecord(data) ==
  /\ Has(data, "category") /\ data["category"] = <<"I","n","c","i","d","e","n","t">>
  /\ Has(data, "incident_type")
  /\ \E k \in {<<"p","o","a","c","h">>, <<"s","n","a","r","e">>, <<"t","r","a","p">>,
               <<"i","l","l","e","g","a","l"," ","h","u","n","t","i","n","g">>} :
       includes(toLowerCase(data["incident_type"]), k)

\* while the dispatch is outstanding the record is stored and no response is
\* sent; a dispatch has been made only for a stored record and is over when
\* the response is there; a poaching record is answered after its dispatch
C19_Ordered ==
  /\ pc = "notify" => Inserted /\ response = NoResponse /\ ~dispatch.called
  /\ dispatch.called => Inserted /\ pc = "idle" /\ response.status = 201
  /\ (Answered /\ response.status = 201 /\ PoachingRecord(response.data)) => dispatch.called

\* the dispatch is made by the step that follows the insert, and that step
\* sends the response
C19_DispatchStep ==
  (dispatch'.called /\ ~dispatch.called) =>
    pc = "notify" /\ response = NoResponse /\ response'.status = 201
    /\ observations' = observations

\* C19: for a create request classified as a poaching incident the record is
\* inserted, then the dispatch completes or fails, then the response is sent:
\* no response while the dispatch is outstanding, no dispatch before the
\* insert has succeeded.
C19_InsertDispatchRespond == []C19_Ordered /\ [][C19_DispatchStep]_vars

\* the dispatch failed and the response followed
C19_Witness ==
  /\ Answered /\ PoachingRecord(response.data) /\ response.status = 201
  /\ dispatch.called /\ ~dispatch.email.success /\ dispatch.email.reason = "error"

SendingDispatch ==
  /\ dispatch.called /\ dispatch.transport.configured
  /\ ~dispatch.transport.initThrows /\ Len(dispatch.transport.recipients) > 0

\* C21: with the transport configured and a non-empty recipient list, the
\* dispatcher calls send once for each recipient, in order, whatever the
\* earlier sends did; the summary holds one result per recipient, each with
\* the outcome of its send, and success is true exactly when some send
\* succeeded.
C21_OneSendPerRecipient ==
  SendingDispatch =>
    LET t == dispatch.transport
        e == dispatch.email
    IN  /\ e.sends = t.recipients
        /\ Len(e.results) = Len(t.recipients)
        /\ \A i \in 1..Len(t.recipients) :
              /\ e.results[i].recipient = t.recipients[i]
              /\ e.results[i].success = (t.recipients[i] \in t.sendOk)
        /\ e.success = (\E i \in 1..Len(e.results) : e.results[i].success)

\* the first send failed, the second was made and succeeded
C21_Witness ==
  /\ SendingDispatch /\ Len(dispatch.email.results) = 2
  /\ ~dispatch.email.results[1].success /\ dispatch.email.results[2].success
  /\ dispatch.email.success

\* the fetched fires that lie in the alert region, the United States
FiresInRegion == {i \in 1..Len(features) : InUsa(features[i])}

\* the transport of the alert passes initializeEmailJS and has recipients
SendingAlert ==
  /\ fireAlert.transport.configured /\ ~fireAlert.transport.initThrows
  /\ Len(fireAlert.transport.recipients) > 0

\* C22: an invocation of the scheduled fire check that reaches the dispatcher
\* makes one alert when some fetched fire lies in the alert region, however
\* many do, and none otherwise; an alert is one message for each recipient;
\* an invocation that does not reach the dispatcher makes none.
C22_OneConsolidatedAlert ==
  /\ fireAlert.called =>
        /\ fireAlert.alerts = (IF FiresInRegion # {} THEN 1 ELSE 0)
        /\ fireAlert.email.sent =
              (IF FiresInRegion # {} /\ SendingAlert
                 THEN Len(fireAlert.transport.recipients) ELSE 0)
  /\ ~fireAlert.called => fireAlert.alerts = 0 /\ fireAlert.email.sent = 0

\* three fires fetched, two of them in the region, two recipients: one alert
C22_Witness ==
  /\ cronResponse.status = 200 /\ Len(features) = 3 /\ Cardinality(FiresInRegion) = 2
  /\ fireAlert.alerts = 1 /\ fireAlert.email.sent = 2

\* C30: the response of the scheduled fire check reports notificationsSent as
\* true only if, during that invocation, at least one alert email was
\* delivered.
C30_SentMeansDelivered ==
  cronResponse.notificationsSent => fireAlert.email.delivered >= 1

\* the categories of the data model
Categories == {<<"S","i","g","h","t","i","n","g">>, <<"I","n","c","i","d","e","n","t">>,
               <<"M","a","i","n","t","e","n","a","n","c","e">>}

\* the poaching types of the data model
PoachingTypes ==
  {<<"C","a","r","c","a","s","s">>, <<"S","n","a","r","e">>, <<"P","o","a","c","h","e","r">>,
   <<"F","i","s","h","i","n","g"," ","n","e","t","/","e","q","u","i","p","m","e","n","t">>}

\* C23: every record of the observation store has a category among Sighting,
\* Incident and Maintenance, and a poaching_type, when it has one, among
\* Carcass, Snare, Poacher and Fishing net/equipment.
C23_RecordsConform ==
  \A i \in 1..Len(observations) :
    LET data == observations[i].data
    IN  /\ Has(data, "category") /\ data["category"] \in Categories
        /\ Has(data, "poaching_type") => data["poaching_type"] \in PoachingTypes

\* the record inserted for req
LastRecord == observations[Len(observations)].data

\* the fields of a record belong to its category
OwnFields(data) ==
  /\ Has(data, "animal") => data["category"] = <<"S","i","g","h","t","i","n","g">>
  /\ (Has(data, "incident_type") \/ Has(data, "poaching_type")) =>
       data["category"] = <<"I","n","c","i","d","e","n","t">>
  /\ Has(data, "maintenance_type") =>
       data["category"] = <<"M","a","i","n","t","e","n","a","n","c","e">>

\* C24 as stated: every record holds only the fields of its own category, and
\* the timestamp of the record inserted for a request is the one the request
\* carries when it carries one, otherwise the server time.
C24_Original ==
  /\ \A i \in 1..Len(observations) : OwnFields(observations[i].data)
  /\ Inserted =>
       LastRecord["timestamp"] =
         (IF Has(req.body, "timestamp") THEN req.body["timestamp"] ELSE now)

\* C24: every record holds only the fields of its own category (animal only
\* on a Sighting, incident_type and poaching_type only on an Incident,
\* maintenance_type only on a Maintenance), whatever the request carried; the
\* timestamp of the record inserted for a request is the one the request
\* carries when that is a truthy value, and otherwise, with no timestamp or
\* with 0, the server time of the handling of the request.
C24_OwnFieldsAndTimestamp ==
  /\ \A i \in 1..Len(observations) : OwnFields(observations[i].data)
  /\ Inserted =>
       LastRecord["timestamp"] =
         (IF Has(req.body, "timestamp") /\ req.body["timestamp"] # 0
            THEN req.body["timestamp"] ELSE now)

\* a Maintenance request carrying animal and incident fields, stored without
\* them and with the server time
C24_Witness ==
  /\ Inserted /\ Has(req.body, "animal") /\ Has(req.body, "poaching_type")
  /\ LastRecord["category"] = <<"M","a","i","n","t","e","n","a","n","c","e">>
  /\ DOMAIN LastRecord = {"category", "timestamp", "synced", "maintenance_type"}
  /\ LastRecord["timestamp"] = now

\* C25 as stated: a request during whose revocation check a read of the user
\* store failed is validated and, when valid, persisted and answered 201.
C25_Original ==
  (Answered /\ readFailed) =>
    IF LacksRequired(req.body)
      THEN response.status = 400 /\ NothingInserted
      ELSE response.status = 201 /\ Inserted

\* C25: when a read of the user store fails during the revocation check the
\* user is treated as not revoked: the request is never answered 403, it is
\* answered 400 when its payload is invalid, and otherwise goes to the insert:
\* 201 with the record stored, or 500 with nothing stored when the insert
\* fails too.
C25_FailOpen ==
  (Answered /\ readFailed) =>
    /\ response.status # 403
    /\ IF LacksRequired(req.body)
         THEN response.status = 400 /\ NothingInserted
         ELSE \/ response.status = 201 /\ Inserted
              \/ response.status = 500 /\ NothingInserted

\* the identifier is the key of a revoked user, the read of it failed, and
\* the record was stored
C25_Witness ==
  /\ Answered /\ readFailed /\ response.status = 201 /\ Inserted
  /\ \E i \in 1..Len(users) : users[i].id = req.body["user"] /\ users[i].status = "revoked"

\* C26: one issued PIN yields at most one session token, also when verify-pin
\* requests for its email overlap: no response carries a token made for a PIN
\* that a token had been made for already.
C26_OneTokenPerPin ==
  ~(authResponse.kind = "verify" /\ authResponse.token /\ authResponse.again)

\* a step that answers a verify-pin with a token removes from the store only
\* the entry of the PIN that was verified
C27_RemovalStep ==
  (authResponse'.kind = "verify" /\ authResponse'.token) =>
    \A k \in (DOMAIN pinStore) \ (DOMAIN pinStore') :
      \E i \in 1..Len(verifying) :
        /\ verifying' = RemoveAt(verifying, i)
        /\ verifying[i].key = k
        /\ verifying[i].issue = pinStore[k].issue

\* C27: a successful verify-pin removes only the PIN it verified; a PIN stored
\* for the same email by a request-pin made while the verification was in
\* progress stays pending.
C27_RemovesOnlyVerified == [][C27_RemovalStep]_vars

\* the identifier is exactly the key, the uid or the email of an active user
ExactlyActive(us, u) ==
  \E i \in 1..Len(us) :
    /\ us[i].status = "active"
    /\ (us[i].id = u \/ us[i].uid = u \/ us[i].email = u)

\* C28: a create request whose user identifier is exactly the key, uid or
\* email of an active user record is never answered 403, whatever other
\* records the user store holds.
C28_RevocationPerUser ==
  (Answered /\ Truthy(req.body, "user") /\ ExactlyActive(users, req.body["user"])) =>
    response.status # 403

\* a step that answers a request-pin with the failure of its email leaves no
\* entry made by that request in the store
C29_FailureStep ==
  (authResponse'.kind = "request" /\ authResponse'.status = 500) =>
    \A i \in 1..Len(requesting) :
      requesting' = RemoveAt(requesting, i) =>
        \A k \in DOMAIN pinStore' : pinStore'[k].issue # requesting[i].issue

\* C29: when request-pin answers that the PIN email could not be sent, the
\* store is as it was before the request; in particular no entry created by
\* the failed request remains.
C29_FailedRequestLeavesNothing == [][C29_FailureStep]_vars

====
